---- MODULE Spec2Model ----
(***************************************************************************)
(* The ESDL asset converter (esdl_heat_model.py), the gas pipe component   *)
(* (gas_pipe.py) and the QTH pipe component (qth/pipe.py) as state         *)
(* machines.  Floating point values are modelled exactly as rational       *)
(* multiples of a power of pi, with one extra value for not-a-number and   *)
(* one for a raised ZeroDivisionError.                                     *)
(***************************************************************************)
EXTENDS Integers, Sequences, FiniteSets, TLC

VARIABLES
    debug,        \* Python's __debug__: FALSE when run with -O (assert statements are stripped)
    q_nominals,   \* the converter's registry of nominal flows, pipe name -> flow
    last,         \* the last conversion: rule, asset and what the rule did
    models,       \* the outputs of the ESDLHeatModel constructions done so far
    comp,         \* the component constructed last
    assignment,   \* a valuation of the component's variables
    merge,        \* the last merge of a modifier tree into a default tree
    lifecycle,    \* the model under construction: its assets and each component's state
    chain         \* gas pipes connected outlet to inlet, each with values of its variables

vars == <<debug, q_nominals, last, models, comp, assignment, merge, lifecycle, chain>>

----------------------------------------------------------------------------
(* Bounds of the model.                                                    *)

\* magnitudes (power, capacity) range over -1 .. MaxMagnitude, 100 and nan
MaxMagnitude == 2
\* a joint has at most MaxPorts ports
MaxPorts == 2
\* a port is connected to at most MaxConn other ports
MaxConn == 2

----------------------------------------------------------------------------
(* Python floats: n/d * pi^p, or the h-th root flag set for x ** 0.5.      *)
(* d = 0 marks the two non-numbers.                                        *)

RECURSIVE GCD(_, _)
GCD(a, b) == IF b = 0 THEN a ELSE GCD(b, a % b)

Abs(x) == IF x < 0 THEN -x ELSE x

nan == [n |-> 0, d |-> 0, p |-> 0, h |-> 0]

ZeroDivisionError == [n |-> 1, d |-> 0, p |-> 0, h |-> 0]

IsNaN(a) == a.d = 0 /\ a.n = 0

IsRaised(a) == a.d = 0 /\ a.n = 1

IsFinite(a) == a.d > 0

Norm(n, d, p) ==
    IF n = 0 THEN [n |-> 0, d |-> 1, p |-> 0, h |-> 0]
    ELSE LET g == GCD(Abs(n), d)
         IN  [n |-> n \div g, d |-> d \div g, p |-> p, h |-> 0]

Rat(n, d) == Norm(n, d, 0)

Num(i) == Rat(i, 1)

pi == [n |-> 1, d |-> 1, p |-> 1, h |-> 0]

\* a * b
Mul(a, b) ==
    IF IsRaised(a) \/ IsRaised(b) THEN ZeroDivisionError
    ELSE IF IsNaN(a) \/ IsNaN(b) THEN nan
    ELSE LET g1 == GCD(Abs(a.n), b.d)
             g2 == GCD(Abs(b.n), a.d)
             h1 == IF g1 = 0 THEN 1 ELSE g1
             h2 == IF g2 = 0 THEN 1 ELSE g2
         IN  Norm((a.n \div h1) * (b.n \div h2), (a.d \div h2) * (b.d \div h1), a.p + b.p)

\* a / b: a float divided by the float zero raises ZeroDivisionError
Div(a, b) ==
    IF IsRaised(a) \/ IsRaised(b) THEN ZeroDivisionError
    ELSE IF IsFinite(b) /\ b.n = 0 THEN ZeroDivisionError
    ELSE IF IsNaN(a) \/ IsNaN(b) THEN nan
    ELSE Mul(a, [n |-> IF b.n < 0 THEN -b.d ELSE b.d, d |-> Abs(b.n), p |-> -b.p, h |-> 0])

\* -a
Neg(a) == IF IsFinite(a) THEN [a EXCEPT !.n = -a.n] ELSE a

\* a - b, for operands with the same power of pi
Sub(a, b) ==
    IF IsRaised(a) \/ IsRaised(b) THEN ZeroDivisionError
    ELSE IF IsNaN(a) \/ IsNaN(b) THEN nan
    ELSE CASE b.n = 0 -> a
           [] a.n = 0 -> Neg(b)
           [] a.p = b.p -> Norm(a.n * b.d - b.n * a.d, a.d * b.d, a.p)

\* a > b: every comparison with nan is false
Gt(a, b) ==
    /\ IsFinite(a)
    /\ IsFinite(b)
    /\ CASE b.n = 0 -> a.n > 0
         [] a.n = 0 -> b.n < 0
         [] a.p = b.p -> a.n * b.d > b.n * a.d

\* Python's max(a, b): b replaces a only when b > a
Max(a, b) == IF Gt(b, a) THEN b ELSE a

\* a ** 0.5, kept symbolic (of a negative float it is a complex number)
Sqrt(a) == IF IsFinite(a) /\ a.n # 0 THEN [a EXCEPT !.h = 1] ELSE a

Zero == Num(0)

----------------------------------------------------------------------------
(* Assets: the records the converter consumes.                             *)

\* asset names are strings, kept as sequences of characters for the "_ret" test
P1 == <<"P", "1">>

P1_ret == <<"P", "1", "_", "r", "e", "t">>

PipeNames == {P1, P1_ret}

\* Python's `needle in name` on strings
Contains(name, needle) ==
    \E i \in 1..(Len(name) - Len(needle) + 1) :
        SubSeq(name, i, i + Len(needle) - 1) = needle

SourceTags == {"GasHeater", "GenericProducer", "GeothermalSource", "ResidualHeatSource"}

DemandTags == {"GenericConsumer", "HeatingDemand"}

Tags == SourceTags \cup DemandTags \cup {"HeatStorage", "Joint", "Pipe", "Pump", "ElectricityCable"}

Magnitudes == {Num(i) : i \in -1..MaxMagnitude} \cup {Num(100), nan}

Diameters == {Zero, Rat(1, 10)}

\* (supply, return) temperatures the carrier of an asset may give
Temperatures == {<<Num(70), Num(40)>>, <<Num(40), Num(40)>>, <<Num(40), Num(70)>>}

NoMaterial == [kind |-> "None", components |-> <<>>]

Layer == [layerWidth |-> Rat(1, 100), thermalConductivity |-> Rat(1, 2)]

Materials ==
    {NoMaterial,
     [kind |-> "CompoundMatter", components |-> <<>>],
     [kind |-> "CompoundMatter", components |-> <<Layer>>],
     [kind |-> "Matter", components |-> <<>>]}

PortKinds == {"InPort", "OutPort", "Port"}

\* a port: its class and the ports it is connected to
Ports == [kind : PortKinds, connectedTo : {1..k : k \in 0..MaxConn}]

Topologies == UNION {[1..k -> Ports] : k \in 0..MaxPorts}

\* the spec's example: two inbound and one outbound connection
ExampleTopology ==
    <<[kind |-> "InPort", connectedTo |-> 1..2], [kind |-> "OutPort", connectedTo |-> 1..1]>>

DefaultAsset(tag) ==
    [asset_type |-> tag,
     name |-> IF tag = "Pipe" THEN P1 ELSE <<"A">>,
     power |-> Num(1),
     capacity |-> Num(1),
     innerDiameter |-> Rat(1, 10),
     length |-> Num(1),
     material |-> NoMaterial,
     port |-> ExampleTopology,
     supplyT |-> Num(70),
     returnT |-> Num(40),
     connected |-> P1]

TagAssets == {DefaultAsset(tag) : tag \in Tags}

\* assets of the tags whose rule reads a magnitude, with every magnitude
MagnitudeAssets ==
    {[DefaultAsset(tag) EXCEPT !.power = m, !.connected = c] :
        tag \in SourceTags \cup DemandTags \cup {"HeatStorage"},
        m \in Magnitudes, c \in {P1, P1_ret}}
    \cup
    {[DefaultAsset(tag) EXCEPT !.capacity = m, !.connected = c] :
        tag \in SourceTags \cup DemandTags \cup {"HeatStorage"},
        m \in Magnitudes, c \in {P1, P1_ret}}

NodeAssets == {[DefaultAsset("Joint") EXCEPT !.port = t] : t \in Topologies}

PipeAssets ==
    {[DefaultAsset("Pipe") EXCEPT !.name = nm, !.innerDiameter = dia, !.supplyT = t[1],
                                 !.returnT = t[2], !.material = m] :
        nm \in PipeNames, dia \in Diameters, t \in Temperatures, m \in Materials}

----------------------------------------------------------------------------
(* AssetToHeatComponent: the conversion rules.                             *)

v_nominal == Num(1)

v_max == Num(5)

rho == Num(988)

cp == Num(4200)

rho_cp_modifiers == [rho |-> rho, cp |-> cp]

\* what a rule does: raise, or return (component type, modifiers); reg is the
\* converter's registry of nominal flows after the call
Raise(kind, reg) ==
    [raised |-> kind, component |-> "none", modifiers |-> <<>>, q_nominals |-> reg]

Return(component, modifiers, reg) ==
    [raised |-> "none", component |-> component, modifiers |-> modifiers, q_nominals |-> reg]

\* `assert cond`: raises AssertionError when cond is false, unless Python runs
\* with -O, which removes the statement
assert_raises(cond) == debug /\ ~cond

\* the carrier's temperatures for the asset
get_supply_return_temperatures(asset) == <<asset.supplyT, asset.returnT>>

supply_return_temperature_modifiers(asset) ==
    [T_supply |-> get_supply_return_temperatures(asset)[1],
     T_return |-> get_supply_return_temperatures(asset)[2]]

\* registers the nominal flow of a pipe
set_q_nominal(reg, asset, q_nominal) ==
    [k \in DOMAIN reg \cup {asset.name} |-> IF k = asset.name THEN q_nominal ELSE reg[k]]

\* whether the pipe the asset is connected to has registered its nominal flow
has_connected_q_nominal(reg, asset) == asset.connected \in DOMAIN reg

get_connected_q_nominal(reg, asset) == reg[asset.connected]

convert_buffer(reg, asset) ==
    IF assert_raises(asset.asset_type = "HeatStorage") THEN Raise("AssertionError", reg)
    ELSE LET max_heat == asset.capacity
         IN  IF assert_raises(Gt(max_heat, Zero)) THEN Raise("AssertionError", reg)
             ELSE IF ~has_connected_q_nominal(reg, asset) THEN Raise("ConfigurationError", reg)
             ELSE Return("Buffer",
                         [Q_nominal |-> get_connected_q_nominal(reg, asset),
                          Stored_heat |-> [min |-> Zero, max |-> max_heat],
                          init_Heat |-> Zero] @@ rho_cp_modifiers,
                         reg)

convert_demand(reg, asset) ==
    IF assert_raises(asset.asset_type \in DemandTags) THEN Raise("AssertionError", reg)
    ELSE LET max_demand == asset.power
         IN  IF assert_raises(Gt(max_demand, Zero)) THEN Raise("AssertionError", reg)
             ELSE IF ~has_connected_q_nominal(reg, asset) THEN Raise("ConfigurationError", reg)
             ELSE Return("Demand",
                         [Q_nominal |-> get_connected_q_nominal(reg, asset),
                          Heat_demand |-> [max |-> max_demand]]
                             @@ supply_return_temperature_modifiers(asset)
                             @@ rho_cp_modifiers,
                         reg)

RECURSIVE SumConnected_ports(_, _)
\* a wrong variant: one per connected port, however many connections it has
SumConnected_ports(items, kind) ==
    IF items = <<>> THEN 0
    ELSE (IF Head(items).kind = kind /\ Head(items).connectedTo # {} THEN 1 ELSE 0)
             + SumConnected_ports(Tail(items), kind)

RECURSIVE SumConnected(_, _)
\* the loop of convert_node for one port class
SumConnected(items, kind) ==
    IF items = <<>> THEN 0
    ELSE (IF Head(items).kind = kind THEN Cardinality(Head(items).connectedTo) ELSE 0)
             + SumConnected(Tail(items), kind)

convert_node(reg, asset) ==
    IF assert_raises(asset.asset_type = "Joint") THEN Raise("AssertionError", reg)
    ELSE LET sum_in == SumConnected(asset.port, "InPort")
             sum_out == SumConnected(asset.port, "OutPort")
         IN  Return("Node", [n |-> sum_in + sum_out], reg)

convert_pipe(reg, asset) ==
    IF assert_raises(asset.asset_type = "Pipe") THEN Raise("AssertionError", reg)
    ELSE LET supply_temperature == get_supply_return_temperatures(asset)[1]
             return_temperature == get_supply_return_temperatures(asset)[2]
             temperature == IF Contains(asset.name, <<"_", "r", "e", "t">>)
                            THEN return_temperature ELSE supply_temperature
             diameter == asset.innerDiameter
             area == Div(Mul(pi, Mul(asset.innerDiameter, asset.innerDiameter)), Num(4))
             q_max == Mul(area, v_max)
             q_nominal == Mul(area, v_nominal)
             reg2 == set_q_nominal(reg, asset, q_nominal)
             delta_temperature == Sub(supply_temperature, return_temperature)
             hfr_nominal == Mul(Mul(Mul(rho, cp), q_nominal), delta_temperature)
             hfr_max == Mul(Mul(Mul(Mul(rho, cp), q_max), delta_temperature), Num(2))
             material == asset.material
             components == material.components
             layers == material.kind # "None" /\ components # <<>>
             insulation_thicknesses ==
                 IF layers THEN [i \in DOMAIN components |-> components[i].layerWidth] ELSE nan
             conductivies_insulation ==
                 IF layers THEN [i \in DOMAIN components |-> components[i].thermalConductivity]
                 ELSE nan
         IN  IF assert_raises(Gt(hfr_max, Zero)) THEN Raise("AssertionError", reg2)
             ELSE IF material.kind # "None" /\ assert_raises(material.kind = "CompoundMatter")
                  THEN Raise("AssertionError", reg2)
             ELSE Return("Pipe",
                         [Q_nominal |-> q_nominal,
                          length |-> asset.length,
                          diameter |-> diameter,
                          temperature |-> temperature,
                          HeatIn |-> [Heat |-> [min |-> Neg(hfr_max), max |-> hfr_max,
                                                nominal |-> hfr_nominal],
                                      Q |-> [min |-> Neg(q_max), max |-> q_max]],
                          HeatOut |-> [Heat |-> [min |-> Neg(hfr_max), max |-> hfr_max,
                                                 nominal |-> hfr_nominal],
                                       Q |-> [min |-> Neg(q_max), max |-> q_max]],
                          insulation_thickness |-> insulation_thicknesses,
                          conductivity_insulation |-> conductivies_insulation]
                             @@ supply_return_temperature_modifiers(asset)
                             @@ rho_cp_modifiers,
                         reg2)

convert_pump(reg, asset) ==
    IF assert_raises(asset.asset_type = "Pump") THEN Raise("AssertionError", reg)
    ELSE IF ~has_connected_q_nominal(reg, asset) THEN Raise("ConfigurationError", reg)
    ELSE Return("Pump",
                [Q_nominal |-> get_connected_q_nominal(reg, asset)]
                    @@ supply_return_temperature_modifiers(asset)
                    @@ rho_cp_modifiers,
                reg)

\* a wrong variant: the nominal not halved
Heat_source_not_halved(max_supply) ==
    [min |-> Zero, max |-> max_supply, nominal |-> max_supply]

Heat_source(max_supply) ==
    [min |-> Zero, max |-> max_supply, nominal |-> Div(max_supply, Num(2))]

convert_source(reg, asset) ==
    IF assert_raises(asset.asset_type \in SourceTags) THEN Raise("AssertionError", reg)
    ELSE LET max_supply == asset.power
         IN  IF assert_raises(Gt(max_supply, Zero)) THEN Raise("AssertionError", reg)
             ELSE IF ~has_connected_q_nominal(reg, asset) THEN Raise("ConfigurationError", reg)
             ELSE Return("Source",
                         [Q_nominal |-> get_connected_q_nominal(reg, asset),
                          Heat_source |-> Heat_source(max_supply)]
                             @@ supply_return_temperature_modifiers(asset)
                             @@ rho_cp_modifiers,
                         reg)

----------------------------------------------------------------------------
(* pycml: modifiers, variables and equations of a component.               *)

\* a leaf of a parameter tree is a float; anything else is a mapping
IsLeaf(x) == DOMAIN x = {"n", "d", "p", "h"}

\* a wrong variant: a nested mapping of the modifier replaces the default's
merge_replacing(a, b) ==
    [k \in DOMAIN a \cup DOMAIN b |-> IF k \in DOMAIN b THEN b[k] ELSE a[k]]

RECURSIVE merge_modifiers(_, _)
\* the recursive merge of the modifier mapping b into the default mapping a
merge_modifiers(a, b) ==
    [k \in DOMAIN a \cup DOMAIN b |->
        IF k \notin DOMAIN b THEN a[k]
        ELSE IF k \notin DOMAIN a THEN b[k]
        ELSE IF IsLeaf(a[k]) \/ IsLeaf(b[k]) THEN b[k]
        ELSE merge_modifiers(a[k], b[k])]

\* the modifier given for a name, or the empty mapping
modifier_of(modifiers, name) == IF name \in DOMAIN modifiers THEN modifiers[name] ELSE <<>>

\* self.key = value in a constructor: a modifier for key takes the place of value
setattr(modifiers, key, value) == IF key \in DOMAIN modifiers THEN modifiers[key] ELSE value

\* a wrong variant: no check of the nominal
Variable_valid_unchecked(v) == TRUE

\* what Variable requires: a finite, strictly positive nominal, and min <= max
Variable_valid(v) ==
    /\ IsFinite(v.nominal) /\ Gt(v.nominal, Zero)
    /\ ("min" \in DOMAIN v /\ "max" \in DOMAIN v /\ IsFinite(v.min) /\ IsFinite(v.max))
          => ~Gt(v.min, v.max)

\* Variable(name, **kwargs) with the modifier for the name merged in; the nominal
\* defaults to 1.0, a bound that is not given is infinite
Variable(modifiers, name, kwargs) ==
    merge_modifiers([nominal |-> Num(1)], merge_modifiers(kwargs, modifier_of(modifiers, name)))

GasPortVariables == {"Q", "mass_flow", "Hydraulic_power", "Q_shadow"}

QTHPortVariables == {"Q", "T"}

\* the variables of a port, named port.variable
Port(modifiers, port, names) ==
    [v \in {<<port, x>> : x \in names} |-> Variable(modifier_of(modifiers, port), v[2], <<>>)]

\* symbolic expressions: a variable, a float, a difference, a quotient
Var(port, name) == <<"var", <<port, name>>>>

Const(c) == <<"const", c>>

Minus(a, b) == <<"sub", a, b>>

Over(a, b) == <<"div", a, b>>

Own == "self"

----------------------------------------------------------------------------
(* GasPipe.                                                                *)

GasPipe_area(diameter) == Mul(Mul(Rat(1, 4), pi), Mul(diameter, diameter))

GasPipe_Q_nominal(s_v_max, area) == Mul(Div(s_v_max, Num(2)), area)

GasPipe_r(length) == Mul(Rat(1, 1000000), length)

GasPipe_nominal_head_loss(Q_nominal, r, nominal_head) ==
    Sqrt(Mul(Mul(Q_nominal, r), nominal_head))

ff == Rat(1, 50)

GasPipe_velo(Q_nominal, area) == Div(Q_nominal, area)

GasPipe_Hydraulic_power_nominal(s_rho, length, area, diameter, velo) ==
    Mul(Div(Div(Mul(Mul(Mul(Mul(s_rho, ff), Max(length, Num(1))), pi), area), diameter),
            Num(2)),
        Mul(Mul(velo, velo), velo))

\* a wrong variant: the power balance is not divided by its scale
GasPipe_power_equation_unscaled(pressure, Q_nominal, Hydraulic_power_nominal) ==
    Minus(Var(Own, "Hydraulic_power"),
          Minus(Var("GasIn", "Hydraulic_power"), Var("GasOut", "Hydraulic_power")))

\* a wrong variant: the alias of Q is left out
GasPipe_flow_equations_no_alias(Q_nominal, density) ==
    <<Over(Minus(Var("GasIn", "Q"), Var("GasOut", "Q")), Const(Q_nominal)),
      Over(Minus(Var("GasIn", "Q"), Over(Var("GasIn", "mass_flow"), Const(density))),
           Const(Q_nominal)),
      Over(Minus(Var("GasIn", "mass_flow"), Var("GasOut", "mass_flow")),
           Const(Mul(Q_nominal, density))),
      Minus(Var("GasOut", "Q_shadow"), Minus(Var("GasIn", "Q_shadow"), Const(Rat(1, 1000))))>>

\* the equations added before the hydraulic power, in order
\* a wrong variant: the shadow equation without its offset
GasPipe_flow_equations_no_offset(Q_nominal, density) ==
    <<Over(Minus(Var("GasIn", "Q"), Var("GasOut", "Q")), Const(Q_nominal)),
      Over(Minus(Var(Own, "Q"), Var("GasOut", "Q")), Const(Q_nominal)),
      Over(Minus(Var("GasIn", "Q"), Over(Var("GasIn", "mass_flow"), Const(density))),
           Const(Q_nominal)),
      Over(Minus(Var("GasIn", "mass_flow"), Var("GasOut", "mass_flow")),
           Const(Mul(Q_nominal, density))),
      Minus(Var("GasOut", "Q_shadow"), Var("GasIn", "Q_shadow"))>>

GasPipe_flow_equations(Q_nominal, density) ==
    <<Over(Minus(Var("GasIn", "Q"), Var("GasOut", "Q")), Const(Q_nominal)),
      Over(Minus(Var(Own, "Q"), Var("GasOut", "Q")), Const(Q_nominal)),
      Over(Minus(Var("GasIn", "Q"), Over(Var("GasIn", "mass_flow"), Const(density))),
           Const(Q_nominal)),
      Over(Minus(Var("GasIn", "mass_flow"), Var("GasOut", "mass_flow")),
           Const(Mul(Q_nominal, density))),
      Minus(Var("GasOut", "Q_shadow"), Minus(Var("GasIn", "Q_shadow"), Const(Rat(1, 1000))))>>

GasPipe_power_equation(pressure, Q_nominal, Hydraulic_power_nominal) ==
    Over(Minus(Var(Own, "Hydraulic_power"),
               Minus(Var("GasIn", "Hydraulic_power"), Var("GasOut", "Hydraulic_power"))),
         Const(Sqrt(Mul(Mul(pressure, Q_nominal), Hydraulic_power_nominal))))

\* a component that was constructed
Constructed(component_type, modifiers, attrs, variables, equations) ==
    [raised |-> "none", component_type |-> component_type, modifiers |-> modifiers,
     attrs |-> attrs, variables |-> variables, equations |-> equations]

\* a constructor that raised
NotConstructed(component_type, modifiers, kind) ==
    [raised |-> kind, component_type |-> component_type, modifiers |-> modifiers]

\* GasPipe(name, **modifiers)
GasPipe(modifiers) ==
    LET ports == Port(modifiers, "GasIn", GasPortVariables)
                     @@ Port(modifiers, "GasOut", GasPortVariables)
        s_v_max == setattr(modifiers, "v_max", Num(15))
        s_density == setattr(modifiers, "density", Num(2500))
        s_rho == setattr(modifiers, "rho", s_density)
        s_diameter == setattr(modifiers, "diameter", nan)
        s_area == setattr(modifiers, "area", GasPipe_area(s_diameter))
        s_Q_nominal == setattr(modifiers, "Q_nominal", GasPipe_Q_nominal(s_v_max, s_area))
        s_pressure == setattr(modifiers, "pressure", Num(1600000))
        s_id_mapping_carrier == setattr(modifiers, "id_mapping_carrier", Num(-1))
        s_nominal_head == setattr(modifiers, "nominal_head", Num(30))
        s_length == setattr(modifiers, "length", nan)
        s_r == setattr(modifiers, "r", GasPipe_r(s_length))
        s_nominal_head_loss ==
            setattr(modifiers, "nominal_head_loss",
                    GasPipe_nominal_head_loss(s_Q_nominal, s_r, s_nominal_head))
        dH == Variable(modifiers, "dH", [nominal |-> Mul(s_Q_nominal, s_r)])
        Q == Variable(modifiers, "Q", [nominal |-> s_Q_nominal])
        velo == GasPipe_velo(s_Q_nominal, s_area)
        s_Hydraulic_power_nominal ==
            setattr(modifiers, "Hydraulic_power_nominal",
                    GasPipe_Hydraulic_power_nominal(s_rho, s_length, s_area, s_diameter, velo))
        Hydraulic_power ==
            Variable(modifiers, "Hydraulic_power",
                     [min |-> Zero, nominal |-> s_Hydraulic_power_nominal])
        attrs ==
            [component_type |-> "gas_pipe",
             disconnectable |-> setattr(modifiers, "disconnectable", FALSE), v_max |-> s_v_max, density |-> s_density,
             rho |-> s_rho, diameter |-> s_diameter, area |-> s_area,
             Q_nominal |-> s_Q_nominal, pressure |-> s_pressure,
             id_mapping_carrier |-> s_id_mapping_carrier, nominal_head |-> s_nominal_head,
             length |-> s_length, r |-> s_r, nominal_head_loss |-> s_nominal_head_loss,
             Hydraulic_power_nominal |-> s_Hydraulic_power_nominal]
    IN  IF \E v \in DOMAIN ports : ~Variable_valid(ports[v])
            THEN NotConstructed("gas_pipe", modifiers, "ConfigurationError")
        ELSE IF ~Variable_valid(dH) \/ ~Variable_valid(Q)
            THEN NotConstructed("gas_pipe", modifiers, "ConfigurationError")
        ELSE IF IsRaised(velo) \/ IsRaised(s_Hydraulic_power_nominal)
            THEN NotConstructed("gas_pipe", modifiers, "ZeroDivisionError")
        ELSE IF ~Variable_valid(Hydraulic_power)
            THEN NotConstructed("gas_pipe", modifiers, "ConfigurationError")
        ELSE Constructed("gas_pipe", modifiers, attrs,
                         ports @@ (<<Own, "dH">> :> dH) @@ (<<Own, "Q">> :> Q)
                               @@ (<<Own, "Hydraulic_power">> :> Hydraulic_power),
                         GasPipe_flow_equations(s_Q_nominal, s_density)
                             \o <<GasPipe_power_equation(s_pressure, s_Q_nominal,
                                                         s_Hydraulic_power_nominal)>>)

----------------------------------------------------------------------------
(* The QTH pipe.                                                           *)

\* a wrong variant: the difference of the default temperatures
Pipe_dT_of_default(T_supply, T_return) == Sub(nan, nan)

Pipe_dT(T_supply, T_return) == Sub(T_supply, T_return)

Pipe_equations ==
    <<Minus(Var("QTHIn", "Q"), Var(Own, "Q")),
      Minus(Var("QTHOut", "Q"), Var("QTHIn", "Q"))>>

\* Pipe(name, **modifiers)
Pipe(modifiers) ==
    LET ports == Port(modifiers, "QTHIn", QTHPortVariables)
                     @@ Port(modifiers, "QTHOut", QTHPortVariables)
        s_T_supply == setattr(modifiers, "T_supply", nan)
        s_T_return == setattr(modifiers, "T_return", nan)
        attrs ==
            [component_type |-> "pipe",
             disconnectable |-> setattr(modifiers, "disconnectable", FALSE),
             has_control_valve |-> setattr(modifiers, "has_control_valve", FALSE),
             length |-> setattr(modifiers, "length", Num(1)),
             diameter |-> setattr(modifiers, "diameter", Num(1)),
             temperature |-> setattr(modifiers, "temperature", nan),
             cp |-> setattr(modifiers, "cp", Num(4200)),
             rho |-> setattr(modifiers, "rho", Num(988)),
             insulation_thickness |-> setattr(modifiers, "insulation_thickness", nan),
             conductivity_insulation |-> setattr(modifiers, "conductivity_insulation", nan),
             conductivity_subsoil |-> setattr(modifiers, "conductivity_subsoil", nan),
             depth |-> setattr(modifiers, "depth", nan),
             h_surface |-> setattr(modifiers, "h_surface", nan),
             pipe_pair_distance |-> setattr(modifiers, "pipe_pair_distance", nan),
             T_supply |-> s_T_supply,
             T_return |-> s_T_return,
             dT |-> setattr(modifiers, "dT", Pipe_dT(s_T_supply, s_T_return)),
             T_ground |-> setattr(modifiers, "T_ground", Num(10))]
        Q == Variable(modifiers, "Q", <<>>)
        dH == Variable(modifiers, "dH", [max |-> Zero])
    IN  IF \E v \in DOMAIN ports : ~Variable_valid(ports[v])
            THEN NotConstructed("pipe", modifiers, "ConfigurationError")
        ELSE IF ~Variable_valid(Q) \/ ~Variable_valid(dH)
            THEN NotConstructed("pipe", modifiers, "ConfigurationError")
        ELSE Constructed("pipe", modifiers, attrs,
                         ports @@ (<<Own, "Q">> :> Q) @@ (<<Own, "dH">> :> dH),
                         Pipe_equations)

----------------------------------------------------------------------------
(* One converter converting assets, one rule call per step.                *)

NoConversion == [rule |-> "none"]

Conversion(rule, asset, out) ==
    [rule |-> rule, asset |-> asset, raised |-> out.raised, component |-> out.component,
     modifiers |-> out.modifiers]

NoComponent == [component_type |-> "none"]

NoMerge == [done |-> FALSE]

NoModel == [phase |-> "none"]

Idle == /\ models = <<>>
        /\ comp = NoComponent
        /\ assignment = <<>>
        /\ merge = NoMerge
        /\ lifecycle = NoModel
        /\ chain = <<>>

Init ==
    /\ debug \in BOOLEAN
    /\ q_nominals = <<>>
    /\ last = NoConversion
    /\ Idle

\* A behaviour is the pipe conversions that fill the registry, then one conversion
\* by another rule (which changes nothing a later conversion reads).
Convert(rule, asset, out) ==
    /\ last.rule \in {"none", "convert_pipe"}
    /\ last' = Conversion(rule, asset, out)
    /\ q_nominals' = out.q_nominals
    /\ UNCHANGED <<debug, models, comp, assignment, merge, lifecycle, chain>>

ConvertBuffer ==
    \E asset \in TagAssets \cup MagnitudeAssets :
        Convert("convert_buffer", asset, convert_buffer(q_nominals, asset))

ConvertDemand ==
    \E asset \in TagAssets \cup MagnitudeAssets :
        Convert("convert_demand", asset, convert_demand(q_nominals, asset))

ConvertNode ==
    \E asset \in TagAssets \cup NodeAssets :
        Convert("convert_node", asset, convert_node(q_nominals, asset))

ConvertPipe ==
    \E asset \in TagAssets \cup PipeAssets :
        Convert("convert_pipe", asset, convert_pipe(q_nominals, asset))

ConvertPump ==
    \E asset \in TagAssets \cup MagnitudeAssets :
        Convert("convert_pump", asset, convert_pump(q_nominals, asset))

ConvertSource ==
    \E asset \in TagAssets \cup MagnitudeAssets :
        Convert("convert_source", asset, convert_source(q_nominals, asset))

Next ==
    \/ ConvertBuffer
    \/ ConvertDemand
    \/ ConvertNode
    \/ ConvertPipe
    \/ ConvertPump
    \/ ConvertSource

Spec == Init /\ [][Next]_vars

----------------------------------------------------------------------------
(* Claims about the conversion rules.                                      *)

Converted(rule) == last.rule = rule

Returned(rule) == last.rule = rule /\ last.raised = "none"

\* zero or negative
NonPositive(a) == IsFinite(a) /\ a.n <= 0

AcceptedTags(rule) ==
    CASE rule = "convert_buffer" -> {"HeatStorage"}
      [] rule = "convert_demand" -> DemandTags
      [] rule = "convert_node" -> {"Joint"}
      [] rule = "convert_pipe" -> {"Pipe"}
      [] rule = "convert_pump" -> {"Pump"}
      [] rule = "convert_source" -> SourceTags

ComponentOf(rule) ==
    CASE rule = "convert_buffer" -> "Buffer"
      [] rule = "convert_demand" -> "Demand"
      [] rule = "convert_node" -> "Node"
      [] rule = "convert_pipe" -> "Pipe"
      [] rule = "convert_pump" -> "Pump"
      [] rule = "convert_source" -> "Source"

\* the magnitude a rule requires to be positive is zero or negative in the asset
\* (for a pipe hfr_max = 2 * rho * cp * q_max * (supply - return), which is so when
\* the diameter is zero or the supply temperature does not exceed the return's)
MagnitudeNonPositive ==
    \/ Converted("convert_buffer") /\ NonPositive(last.asset.capacity)
    \/ Converted("convert_demand") /\ NonPositive(last.asset.power)
    \/ Converted("convert_source") /\ NonPositive(last.asset.power)
    \/ Converted("convert_pipe")
         /\ (last.asset.innerDiameter = Zero
                \/ NonPositive(Sub(last.asset.supplyT, last.asset.returnT)))

\* C1: a rule applied to an asset of its own type whose required magnitude is zero
\* or negative fails with a ConfigurationError and returns no (component,
\* modifiers) pair.
C1_NonPositiveIsConfigurationError ==
    (last.rule # "none" /\ last.asset.asset_type \in AcceptedTags(last.rule)
        /\ MagnitudeNonPositive)
        => (last.raised = "ConfigurationError" /\ last.component = "none")

\* C2: a rule applied to an asset whose type tag it does not accept fails with a
\* ConfigurationError, and a rule returns its component type only for an asset
\* whose tag it accepts.
C2_WrongTagIsConfigurationError ==
    last.rule # "none" =>
        /\ last.asset.asset_type \notin AcceptedTags(last.rule)
              => last.raised = "ConfigurationError"
        /\ last.raised = "none"
              => (last.asset.asset_type \in AcceptedTags(last.rule)
                     /\ last.component = ComponentOf(last.rule))

\* a <= b
Le(a, b) == IsFinite(a) /\ IsFinite(b) /\ ~Gt(a, b)

\* C3: a conversion that succeeds copies the magnitude unchanged: a demand gets
\* Heat_demand.max = power; a source gets Heat_source min = 0, max = power and
\* twice the nominal = power; a buffer gets Stored_heat min = 0, max = capacity and
\* init_Heat = 0.  For a positive magnitude min <= max and the nominal is positive.
C3_MagnitudeCopied ==
    /\ Returned("convert_demand") =>
          last.modifiers.Heat_demand = [max |-> last.asset.power]
    /\ Returned("convert_source") =>
          LET m == last.modifiers.Heat_source
              P == last.asset.power
          IN  /\ DOMAIN m = {"min", "max", "nominal"}
              /\ m.min = Zero
              /\ m.max = P
              /\ Mul(m.nominal, Num(2)) = P
              /\ Gt(P, Zero) => (Le(m.min, m.max) /\ Gt(m.nominal, Zero))
    /\ Returned("convert_buffer") =>
          LET m == last.modifiers.Stored_heat
              C == last.asset.capacity
          IN  /\ DOMAIN m = {"min", "max"}
              /\ m.min = Zero
              /\ m.max = C
              /\ last.modifiers.init_Heat = Zero
              /\ Gt(C, Zero) => Le(m.min, m.max)

\* a source of power 100 was converted and got the bounds 0 and 100, nominal 50
C3_Witness ==
    /\ debug
    /\ Returned("convert_source")
    /\ last.asset.power = Num(100)
    /\ last.modifiers.Heat_source = [min |-> Zero, max |-> Num(100), nominal |-> Num(50)]

\* the ports of the joint of the given class that have a connection
ConnectedPorts(port, kind) ==
    {i \in DOMAIN port : port[i].kind = kind /\ port[i].connectedTo # {}}

\* the connections of the joint's inbound and outbound ports
Connections(port) ==
    UNION {{<<i, c>> : c \in port[i].connectedTo} :
              i \in {j \in DOMAIN port : port[j].kind \in {"InPort", "OutPort"}}}

\* C4 as stated: n is the number of inbound ports that are connected plus the
\* number of outbound ports that are connected.
C4_CountsConnectedPorts ==
    (Returned("convert_node") /\ last.asset.asset_type = "Joint") =>
        last.modifiers.n = Cardinality(ConnectedPorts(last.asset.port, "InPort"))
                              + Cardinality(ConnectedPorts(last.asset.port, "OutPort"))

\* C4 amended: n is the number of connections of the joint's inbound and outbound
\* ports: a port connected to k ports counts k times, an unconnected port and a
\* port of another class count nothing.
C4_CountsConnections ==
    (Returned("convert_node") /\ last.asset.asset_type = "Joint") =>
        last.modifiers.n = Cardinality(Connections(last.asset.port))

\* the example: an inbound port with two connections and an outbound port with
\* one give n = 3
C4_Witness ==
    /\ Returned("convert_node")
    /\ last.asset.asset_type = "Joint"
    /\ last.asset.port = ExampleTopology
    /\ last.modifiers.n = 3

----------------------------------------------------------------------------
(* Constructing one component and valuing its variables.                   *)

\* a component takes at most MaxModifiers modifiers
MaxModifiers == 3

RECURSIVE ModifiersOver(_, _)
\* the modifier mappings that give each of the keys one of its options
ModifiersOver(options, keys) ==
    IF keys = {} THEN {<<>>}
    ELSE LET k == CHOOSE x \in keys : TRUE
         IN  {(k :> v) @@ m : v \in options[k], m \in ModifiersOver(options, keys \ {k})}

\* the modifier mappings that give at most MaxModifiers of the options' keys a value
ModifierSets(options) ==
    UNION {ModifiersOver(options, keys) :
           keys \in {ks \in SUBSET DOMAIN options : Cardinality(ks) <= MaxModifiers}}

GasPipeOptions ==
    [diameter |-> {Rat(1, 10), Zero, Rat(-1, 10)},
     length |-> {Num(2), Num(-1)},
     v_max |-> {Num(10)},
     density |-> {Num(1000)},
     Q_nominal |-> {Rat(1, 100), Zero},
     Q |-> {[nominal |-> Num(1)]},
     dH |-> {[nominal |-> Num(1)]},
     Hydraulic_power |-> {[nominal |-> Num(1)], [max |-> Num(-1)]},
     GasIn |-> {[Q |-> [nominal |-> Zero]], [Q |-> [min |-> Num(-1), max |-> Num(1)]]}]

PipeOptions ==
    [T_supply |-> {Num(70)},
     T_return |-> {Num(40)},
     dT |-> {Num(5)},
     length |-> {Num(2)},
     Q |-> {[nominal |-> Zero], [nominal |-> Num(2)]},
     dH |-> {[min |-> Num(1)], [min |-> Num(-5)]},
     QTHIn |-> {[Q |-> [max |-> Num(1)]], [Q |-> [nominal |-> nan]]}]

\* the value of x / c for a symbolic x: no exception; x / c ** 0.5 is kept as the
\* root of x * x / c, which is zero exactly when x is
EvalDiv(x, c) ==
    IF ~IsFinite(x) \/ ~IsFinite(c) \/ c.n = 0 THEN nan
    ELSE IF c.h = 1
         THEN (IF x.n = 0 THEN Zero ELSE [Div(Mul(x, x), [c EXCEPT !.h = 0]) EXCEPT !.h = 1])
         ELSE Div(x, c)

RECURSIVE Eval(_, _)
\* the value of an expression under a valuation of the variables
Eval(e, a) ==
    CASE e[1] = "var" -> a[e[2]]
      [] e[1] = "const" -> e[2]
      [] e[1] = "sub" -> Sub(Eval(e[2], a), Eval(e[3], a))
      [] e[1] = "div" -> EvalDiv(Eval(e[2], a), Eval(e[3], a))

\* every equation of the component holds: its expression is zero
Satisfies(c, a) == \A i \in DOMAIN c.equations : Eval(c.equations[i], a) = Zero

\* the variables a valuation varies, and the value other than zero each may take
Varied(c) ==
    {v \in DOMAIN c.variables :
        \/ v[2] \in {"Q", "mass_flow"}
        \/ v \in {<<"GasOut", "Q_shadow">>, <<Own, "Hydraulic_power">>,
                  <<"GasIn", "Hydraulic_power">>}}

NonZeroValue(c, v) ==
    CASE v[2] = "Q" -> Num(1)
      [] v[2] = "mass_flow" -> c.attrs.density
      [] v[2] = "Q_shadow" -> Rat(-1, 1000)
      [] v[2] = "Hydraulic_power" -> Num(1)

Valuations(c) ==
    {[v \in DOMAIN c.variables |-> IF v \in nz THEN NonZeroValue(c, v) ELSE Zero] :
        nz \in SUBSET Varied(c)}

InitComp ==
    /\ debug = TRUE
    /\ q_nominals = <<>>
    /\ last = NoConversion
    /\ Idle

ConstructGasPipe ==
    /\ comp = NoComponent
    /\ \E modifiers \in ModifierSets(GasPipeOptions) : comp' = GasPipe(modifiers)
    /\ UNCHANGED <<debug, q_nominals, last, models, assignment, merge, lifecycle, chain>>

ConstructPipe ==
    /\ comp = NoComponent
    /\ \E modifiers \in ModifierSets(PipeOptions) : comp' = Pipe(modifiers)
    /\ UNCHANGED <<debug, q_nominals, last, models, assignment, merge, lifecycle, chain>>

\* the solver's side: some valuation of the variables of the constructed component
Assign ==
    /\ comp # NoComponent
    /\ comp.raised = "none"
    /\ assignment = <<>>
    /\ \E a \in Valuations(comp) : assignment' = a
    /\ UNCHANGED <<debug, q_nominals, last, models, comp, merge, lifecycle, chain>>

NextComp == ConstructGasPipe \/ ConstructPipe \/ Assign

SpecComp == InitComp /\ [][NextComp]_vars

----------------------------------------------------------------------------
(* Claims about the components.                                            *)

IsConstructed(component_type) ==
    comp.component_type = component_type /\ comp.raised = "none"

Solved == assignment # <<>> /\ Satisfies(comp, assignment)

\* C5: every valuation that satisfies all equations of a gas pipe or of a QTH pipe
\* gives the outlet the flow of the inlet, and the component's own Q that flow.
C5_FlowConserved ==
    /\ (IsConstructed("gas_pipe") /\ Solved) =>
          /\ assignment[<<"GasOut", "Q">>] = assignment[<<"GasIn", "Q">>]
          /\ assignment[<<Own, "Q">>] = assignment[<<"GasIn", "Q">>]
    /\ (IsConstructed("pipe") /\ Solved) =>
          /\ assignment[<<"QTHOut", "Q">>] = assignment[<<"QTHIn", "Q">>]
          /\ assignment[<<Own, "Q">>] = assignment[<<"QTHIn", "Q">>]

\* a gas pipe whose equations hold with the flow 1 at the inlet
C5_Witness ==
    /\ IsConstructed("gas_pipe")
    /\ Solved
    /\ assignment[<<"GasIn", "Q">>] = Num(1)
    /\ assignment[<<"GasOut", "Q">>] = Num(1)

\* C6: every variable of a constructed component, those of its ports included,
\* has a finite, strictly positive nominal.
C6_NominalsPositive ==
    (comp # NoComponent /\ comp.raised = "none") =>
        \A v \in DOMAIN comp.variables :
            IsFinite(comp.variables[v].nominal) /\ Gt(comp.variables[v].nominal, Zero)

\* a gas pipe of diameter 0.1 and length 2: dH, Q and Hydraulic_power have the
\* nominals Q_nominal * r, Q_nominal and Hydraulic_power_nominal
C6_Witness ==
    /\ IsConstructed("gas_pipe")
    /\ comp.modifiers = [diameter |-> Rat(1, 10), length |-> Num(2)]
    /\ comp.variables[<<Own, "dH">>].nominal = Mul(comp.attrs.Q_nominal, comp.attrs.r)
    /\ comp.variables[<<Own, "Q">>].nominal = comp.attrs.Q_nominal
    /\ comp.variables[<<Own, "Hydraulic_power">>].nominal = comp.attrs.Hydraulic_power_nominal
    /\ Gt(comp.attrs.Q_nominal, Zero)

\* an expression divided by a constant scale
Normalized(e) == e[1] = "div" /\ e[3][1] = "const"

NormalizedBy(e, scale) == e[1] = "div" /\ e[3] = Const(scale)

\* C7 as stated: every equation of a gas pipe and of a QTH pipe is divided by a
\* nominal scale.
C7_EveryEquationNormalized ==
    (comp # NoComponent /\ comp.raised = "none") =>
        \A i \in DOMAIN comp.equations : Normalized(comp.equations[i])

\* C7 amended: of the six equations of a gas pipe the flow equality, the alias of
\* Q and the density relation are divided by Q_nominal, the conservation of mass
\* flow by Q_nominal * density and the power balance by
\* (pressure * Q_nominal * Hydraulic_power_nominal) ** 0.5; the shadow equation is
\* not divided, and neither of the two equations of a QTH pipe is.
C7_NormalizedButShadowAndQTH ==
    /\ IsConstructed("gas_pipe") =>
          LET eq == comp.equations
              at == comp.attrs
          IN  /\ Len(eq) = 6
              /\ \A i \in 1..3 : NormalizedBy(eq[i], at.Q_nominal)
              /\ NormalizedBy(eq[4], Mul(at.Q_nominal, at.density))
              /\ ~Normalized(eq[5])
              /\ NormalizedBy(eq[6],
                              Sqrt(Mul(Mul(at.pressure, at.Q_nominal),
                                       at.Hydraulic_power_nominal)))
    /\ IsConstructed("pipe") =>
          /\ Len(comp.equations) = 2
          /\ \A i \in 1..2 : ~Normalized(comp.equations[i])

\* a gas pipe was constructed: five of its equations are divided, the shadow
\* equation is not
C7_Witness ==
    /\ IsConstructed("gas_pipe")
    /\ comp.modifiers = [diameter |-> Rat(1, 10), length |-> Num(2)]
    /\ Cardinality({i \in DOMAIN comp.equations : Normalized(comp.equations[i])}) = 5

\* the modifiers name no nominal for the variable
NominalNotModified(name) ==
    name \notin DOMAIN comp.modifiers \/ "nominal" \notin DOMAIN comp.modifiers[name]

\* C8: every derived constant that no modifier names itself has the value of its
\* formula at the final values of the parameters: area = pi/4 * diameter^2,
\* Q_nominal = v_max/2 * area, r = 1e-6 * length, rho = density, and the nominals
\* of dH, Q and Hydraulic_power are those of the final Q_nominal, r and
\* Hydraulic_power_nominal; for a QTH pipe dT = T_supply - T_return.
C8_DerivedFromFinalParameters ==
    /\ IsConstructed("gas_pipe") =>
          LET at == comp.attrs
              m == comp.modifiers
          IN  /\ "area" \notin DOMAIN m =>
                    Mul(at.area, Num(4)) = Mul(pi, Mul(at.diameter, at.diameter))
              /\ "Q_nominal" \notin DOMAIN m =>
                    Mul(at.Q_nominal, Num(2)) = Mul(at.v_max, at.area)
              /\ "r" \notin DOMAIN m => Mul(at.r, Num(1000000)) = at.length
              /\ "rho" \notin DOMAIN m => at.rho = at.density
              /\ "nominal_head_loss" \notin DOMAIN m =>
                    at.nominal_head_loss = Sqrt(Mul(Mul(at.Q_nominal, at.r), at.nominal_head))
              /\ "Hydraulic_power_nominal" \notin DOMAIN m =>
                    at.Hydraulic_power_nominal =
                        GasPipe_Hydraulic_power_nominal(at.rho, at.length, at.area, at.diameter,
                                                        Div(at.Q_nominal, at.area))
              /\ NominalNotModified("dH") =>
                    comp.variables[<<Own, "dH">>].nominal = Mul(at.Q_nominal, at.r)
              /\ NominalNotModified("Q") =>
                    comp.variables[<<Own, "Q">>].nominal = at.Q_nominal
              /\ NominalNotModified("Hydraulic_power") =>
                    comp.variables[<<Own, "Hydraulic_power">>].nominal
                        = at.Hydraulic_power_nominal
              /\ \A k \in DOMAIN m \cap DOMAIN at : at[k] = m[k]
    /\ IsConstructed("pipe") =>
          /\ "dT" \notin DOMAIN comp.modifiers =>
                comp.attrs.dT = Sub(comp.attrs.T_supply, comp.attrs.T_return)
          /\ \A k \in DOMAIN comp.modifiers \cap DOMAIN comp.attrs :
                comp.attrs[k] = comp.modifiers[k]

\* the example: the modifier diameter = 0.1 with the default v_max = 15.0 gives
\* area = pi/4 * 0.01 and Q_nominal = 7.5 * area
C8_Witness ==
    /\ IsConstructed("gas_pipe")
    /\ comp.modifiers = [diameter |-> Rat(1, 10), length |-> Num(2)]
    /\ comp.attrs.v_max = Num(15)
    /\ comp.attrs.area = Mul(Rat(1, 400), pi)
    /\ comp.attrs.Q_nominal = Mul(Rat(3, 160), pi)

----------------------------------------------------------------------------
(* Merging a modifier tree into a default tree.                            *)

\* the modifier trees are nested at most MergeDepth deep
MergeDepth == 2

MergeKeys == {"max", "min"}

MappingsOver(values) == UNION {[ks -> values] : ks \in SUBSET MergeKeys}

RECURSIVE TreeValues(_, _)
\* the leaves, and the mappings nested at most depth deep
TreeValues(leaves, depth) ==
    IF depth = 0 THEN leaves
    ELSE leaves \cup MappingsOver(TreeValues(leaves, depth - 1))

\* the default trees have the leaf 1 and a mapping in a mapping at most, the
\* modifier trees the leaf 5
DefaultTrees == MappingsOver(TreeValues({Num(1)}, 1))

ModifierTrees == MappingsOver(TreeValues({Num(5)}, MergeDepth - 1))

\* the spec's example
ExampleDefault == [HeatIn |-> [Heat |-> [max |-> Num(1), min |-> Num(-1)]]]

ExampleModifier == [HeatIn |-> [Heat |-> [max |-> Num(5)]]]

InitMerge ==
    /\ debug = TRUE
    /\ q_nominals = <<>>
    /\ last = NoConversion
    /\ Idle

Merged(d, m) == [done |-> TRUE, default |-> d, modifier |-> m, merged |-> merge_modifiers(d, m)]

MergeModifiers ==
    /\ merge = NoMerge
    /\ \E d \in DefaultTrees \cup {ExampleDefault}, m \in ModifierTrees \cup {ExampleModifier} :
           merge' = Merged(d, m)
    /\ UNCHANGED <<debug, q_nominals, last, models, comp, assignment, lifecycle, chain>>

NextMerge == MergeModifiers

SpecMerge == InitMerge /\ [][NextMerge]_vars

RECURSIVE Paths(_)
\* the paths of a tree: the key sequences that lead to a leaf or to a mapping
Paths(t) ==
    IF IsLeaf(t) THEN {}
    ELSE UNION {{<<k>>} \cup {<<k>> \o q : q \in Paths(t[k])} : k \in DOMAIN t}

RECURSIVE At(_, _)
\* what the tree has at a path of it
At(t, path) == IF path = <<>> THEN t ELSE At(t[Head(path)], Tail(path))

\* the tree has a leaf at a proper prefix of the path
LeafAbove(t, path) ==
    \E i \in 1..(Len(path) - 1) :
        SubSeq(path, 1, i) \in Paths(t) /\ IsLeaf(At(t, SubSeq(path, 1, i)))

\* C9: the merged tree has, at every path the modifier defines, the modifier's
\* leaf or a merged mapping, and at every other path of the default the default's
\* value (unless the modifier put a leaf above it); it has no other path.  A nested
\* mapping of the modifier never replaces the default's mapping.
C9_MergeOverlays ==
    merge.done =>
        LET D == merge.default
            M == merge.modifier
            R == merge.merged
        IN  /\ Paths(R) \subseteq Paths(D) \cup Paths(M)
            /\ \A q \in Paths(M) :
                  /\ q \in Paths(R)
                  /\ IsLeaf(At(M, q)) => At(R, q) = At(M, q)
                  /\ ~IsLeaf(At(M, q)) => ~IsLeaf(At(R, q))
            /\ \A q \in Paths(D) \ Paths(M) :
                  ~LeafAbove(M, q) => (q \in Paths(R) /\ At(R, q) = At(D, q))

\* the example: max is overwritten, its sibling min is kept
C9_Witness ==
    /\ merge.done
    /\ merge.default = ExampleDefault
    /\ merge.modifier = ExampleModifier
    /\ merge.merged = [HeatIn |-> [Heat |-> [max |-> Num(5), min |-> Num(-1)]]]

----------------------------------------------------------------------------
(* ESDLHeatModel: one converter per model, converting the assets in order. *)

\* a model has at most MaxAssets assets
MaxAssets == 2

RunAssets ==
    {DefaultAsset("Pipe"),
     [DefaultAsset("Pipe") EXCEPT !.returnT = Num(70)],
     [DefaultAsset("HeatingDemand") EXCEPT !.name = <<"D">>],
     [DefaultAsset("Joint") EXCEPT !.name = <<"J">>]}

\* the assets of a model, in its order: a mapping from names, so no name twice
AssetLists ==
    {l \in UNION {[1..k -> RunAssets] : k \in 0..MaxAssets} :
        \A i, j \in DOMAIN l : l[i].name = l[j].name => i = j}

\* the rule for the asset's type tag
convert(reg, asset) ==
    CASE asset.asset_type = "HeatStorage" -> convert_buffer(reg, asset)
      [] asset.asset_type \in DemandTags -> convert_demand(reg, asset)
      [] asset.asset_type = "Joint" -> convert_node(reg, asset)
      [] asset.asset_type = "Pipe" -> convert_pipe(reg, asset)
      [] asset.asset_type = "Pump" -> convert_pump(reg, asset)
      [] asset.asset_type \in SourceTags -> convert_source(reg, asset)
      [] OTHER -> Raise("ConfigurationError", reg)

\* the role a component is grouped under
RoleOf(component) ==
    CASE component = "Buffer" -> "buffer"
      [] component = "Demand" -> "demand"
      [] component = "Node" -> "node"
      [] component = "Pipe" -> "pipe"
      [] component = "Pump" -> "pump"
      [] component = "Source" -> "source"

Roles == {"buffer", "demand", "node", "pipe", "pump", "source"}

RECURSIVE esdl_convert(_, _, _)
\* the asset at the head is converted to out: a failure ends the construction,
\* a component is added and the rest is converted
add_component(out, assets, components) ==
    IF out.raised # "none"
    THEN [raised |-> out.raised, components |-> components, q_nominals |-> out.q_nominals]
    ELSE esdl_convert(out.q_nominals, Tail(assets),
                      Append(components,
                             [name |-> Head(assets).name,
                              component |-> out.component,
                              modifiers |-> out.modifiers]))

\* converts the assets in order
esdl_convert(reg, assets, components) ==
    IF assets = <<>> THEN [raised |-> "none", components |-> components, q_nominals |-> reg]
    ELSE add_component(convert(reg, Head(assets)), assets, components)

\* the names of the components of a role, in order
Group(components, r) ==
    SelectSeq([i \in DOMAIN components |-> components[i].name],
              LAMBDA name : \E i \in DOMAIN components :
                                /\ components[i].name = name
                                /\ RoleOf(components[i].component) = r)

\* what the model is given by the conversion
Assembled(assets, done) ==
    [assets |-> assets,
     raised |-> done.raised,
     components |-> done.components,
     groups |-> [r \in Roles |-> Group(done.components, r)],
     q_nominals |-> done.q_nominals]

\* a wrong variant: the converter of the model before is used again
converter_reused(previous) == previous

\* converter = converter_class(**kwargs): a converter of the model's own, with
\* nothing registered
converter_class(previous) == <<>>

\* ESDLHeatModel(assets): what it hands on, and the converter it leaves
ESDLHeatModel(previous, assets) ==
    Assembled(assets, esdl_convert(converter_class(previous), assets, <<>>))

\* what a construction hands on
Output(run) == [raised |-> run.raised, components |-> run.components, groups |-> run.groups]

InitRun ==
    /\ debug \in BOOLEAN
    /\ q_nominals = <<>>
    /\ last = NoConversion
    /\ Idle

\* the constructions kept: one earlier construction and the latest
Kept(this) ==
    {IF models = <<>> THEN <<this>> ELSE <<models[1], this>>}
        \cup {<<models[i], this>> : i \in DOMAIN models}

\* A model is constructed.
ConstructModel ==
    \E assets \in AssetLists :
        \E run \in {ESDLHeatModel(q_nominals, assets)} :
            /\ q_nominals' = run.q_nominals
            /\ models' \in Kept([assets |-> assets, out |-> Output(run)])
            /\ UNCHANGED <<debug, last, comp, assignment, merge, lifecycle, chain>>

NextRun == ConstructModel

SpecRun == InitRun /\ [][NextRun]_vars

----------------------------------------------------------------------------
(* The states of the components of one model: declared, constructed,       *)
(* connected, flattened.                                                   *)

States == <<"declared", "constructed", "connected", "flattened">>

\* the place of a state in the order
Rank(st) == CHOOSE i \in DOMAIN States : States[i] = st

\* the first component in the given state, 0 when there is none
First(state, st) ==
    IF \E i \in DOMAIN state : state[i] = st
    THEN CHOOSE i \in DOMAIN state : state[i] = st /\ \A j \in 1..(i - 1) : state[j] # st
    ELSE 0

\* a wrong variant: the assembler starts whenever a component is constructed
AssemblerMayStart_early(state) == TRUE

\* the assembler starts when every component is constructed
AssemblerMayStart(state) == \A i \in DOMAIN state : state[i] # "declared"

InitLife ==
    /\ debug \in BOOLEAN
    /\ q_nominals = <<>>
    /\ last = NoConversion
    /\ Idle

\* ESDLHeatModel(assets) is called: the assets are the components declared, and the
\* model has a converter of its own
Declare ==
    /\ lifecycle.phase = "none"
    /\ \E assets \in AssetLists :
           lifecycle' = [phase |-> "run", assets |-> assets,
                         state |-> [i \in DOMAIN assets |-> "declared"]]
    /\ q_nominals' = converter_class(q_nominals)
    /\ UNCHANGED <<debug, last, models, comp, assignment, merge, chain>>

\* the next asset is converted and its component constructed; a failure ends the run
Construct ==
    /\ lifecycle.phase = "run"
    /\ First(lifecycle.state, "declared") # 0
    /\ \E i \in {First(lifecycle.state, "declared")} :
         \E out \in {convert(q_nominals, lifecycle.assets[i])} :
           /\ q_nominals' = out.q_nominals
           /\ lifecycle' = IF out.raised # "none"
                           THEN [lifecycle EXCEPT !.phase = "failed"]
                           ELSE [lifecycle EXCEPT !.state[i] = "constructed"]
    /\ UNCHANGED <<debug, last, models, comp, assignment, merge, chain>>

\* the assembler connects the next component
Connect ==
    /\ lifecycle.phase = "run"
    /\ AssemblerMayStart(lifecycle.state)
    /\ First(lifecycle.state, "constructed") # 0
    /\ lifecycle' = [lifecycle EXCEPT !.state[First(lifecycle.state, "constructed")] = "connected"]
    /\ UNCHANGED <<debug, q_nominals, last, models, comp, assignment, merge, chain>>

\* the model is flattened and handed to the solver
Flatten ==
    /\ lifecycle.phase = "run"
    /\ \A i \in DOMAIN lifecycle.state : lifecycle.state[i] = "connected"
    /\ lifecycle' = [lifecycle EXCEPT !.phase = "flattened",
                                      !.state = [i \in DOMAIN lifecycle.state |-> "flattened"]]
    /\ UNCHANGED <<debug, q_nominals, last, models, comp, assignment, merge, chain>>

NextLife == Declare \/ Construct \/ Connect \/ Flatten

SpecLife == InitLife /\ [][NextLife]_vars

\* a step leaves every component in its state or moves it to the next state
ForwardByOne ==
    lifecycle.phase # "none" =>
        /\ lifecycle'.assets = lifecycle.assets
        /\ \A i \in DOMAIN lifecycle.state :
              \/ lifecycle'.state[i] = lifecycle.state[i]
              \/ Rank(lifecycle'.state[i]) = Rank(lifecycle.state[i]) + 1

\* no component is connected or flattened while another is only declared
AllConstructedBeforeAssembly ==
    lifecycle.phase # "none" =>
        \A i, j \in DOMAIN lifecycle.state :
            lifecycle.state[i] \in {"connected", "flattened"} => lifecycle.state[j] # "declared"

\* C11: within one run every component only stays in its state or moves to the
\* next of declared, constructed, connected, flattened (never back, never past
\* one), and no component is connected before every component is constructed.
C11_ForwardOnlyAfterBarrier == [][ForwardByOne]_vars /\ []AllConstructedBeforeAssembly

\* two components went through every state
C11_Witness ==
    /\ lifecycle.phase = "flattened"
    /\ Len(lifecycle.assets) = 2
    /\ \A i \in DOMAIN lifecycle.state : lifecycle.state[i] = "flattened"

----------------------------------------------------------------------------
(* Gas pipes in a chain: each outlet is connected to the next inlet.       *)

\* a chain has at most MaxChain pipes
MaxChain == 3

\* the modifiers of the pipes: geometries, bounds, and none (no pipe is constructed)
ChainModifiers ==
    {<<>>,
     [diameter |-> Rat(1, 10), length |-> Num(2)],
     [diameter |-> Rat(1, 5), length |-> Num(1), v_max |-> Num(10)],
     [diameter |-> Rat(1, 10), length |-> Num(2), density |-> Num(1000),
      GasIn |-> [Q_shadow |-> [min |-> Num(-1), max |-> Num(1)]]]}

\* the values Q_shadow may take
ShadowValues == {Rat(j, 1000) : j \in -(MaxChain + 1)..1}

\* the flow through a pipe, in either direction
Flows == {Num(-1), Num(1)}

\* values of the variables of a pipe with the given flow and shadows
PipeValuation(c, q, shadow_in, shadow_out) ==
    [v \in DOMAIN c.variables |->
        CASE v[2] = "Q" -> q
          [] v[2] = "mass_flow" -> Mul(q, c.attrs.density)
          [] v = <<"GasIn", "Q_shadow">> -> shadow_in
          [] v = <<"GasOut", "Q_shadow">> -> shadow_out
          [] OTHER -> Zero]

\* connecting an outlet to an inlet makes their Q_shadow one value
Aliased(pipes, shadow_in) ==
    IF pipes = <<>> THEN TRUE ELSE pipes[Len(pipes)].shadow_out = shadow_in

InitChain ==
    /\ debug = TRUE
    /\ q_nominals = <<>>
    /\ last = NoConversion
    /\ Idle

\* A gas pipe is constructed and connected to the outlet of the chain, and the
\* solver gives its variables values that make its equations hold.
ConnectGasPipe ==
    /\ Len(chain) < MaxChain
    /\ \E modifiers \in ChainModifiers, q \in Flows, shadow_in, shadow_out \in ShadowValues :
         \E c \in {GasPipe(modifiers)} :
           /\ Aliased(chain, shadow_in)
           /\ c.raised = "none"
           /\ Satisfies(c, PipeValuation(c, q, shadow_in, shadow_out))
           /\ chain' = Append(chain, [modifiers |-> modifiers, Q |-> q,
                                      shadow_in |-> shadow_in, shadow_out |-> shadow_out])
    /\ UNCHANGED <<debug, q_nominals, last, models, comp, assignment, merge, lifecycle>>

NextChain == ConnectGasPipe

SpecChain == InitChain /\ [][NextChain]_vars

\* the Q_shadow values along the chain: the first inlet, then every outlet
Junctions == IF chain = <<>> THEN <<>>
             ELSE <<chain[1].shadow_in>> \o [i \in DOMAIN chain |-> chain[i].shadow_out]

\* C12: whatever its modifiers, geometry and flow direction, every pipe of the chain
\* has GasOut.Q_shadow = GasIn.Q_shadow - 1e-3; so the last outlet of a chain of k
\* pipes is at the first inlet's value minus k * 1e-3, the values along the chain
\* strictly decrease, and no two places of the chain have the same value.
C12_ShadowDecreasesByOffset ==
    /\ \A i \in DOMAIN chain : chain[i].shadow_out = Sub(chain[i].shadow_in, Rat(1, 1000))
    /\ chain # <<>> =>
          chain[Len(chain)].shadow_out = Sub(chain[1].shadow_in, Rat(Len(chain), 1000))
    /\ \A i, j \in DOMAIN Junctions : i < j => Gt(Junctions[i], Junctions[j])
    /\ \A i, j \in DOMAIN Junctions : Junctions[i] = Junctions[j] => i = j

\* three pipes of different geometry, the flow not in one direction
C12_Witness ==
    /\ Len(chain) = 3
    /\ chain[1].modifiers # chain[2].modifiers
    /\ chain[1].Q # chain[2].Q
    /\ chain[1].shadow_in = Zero
    /\ chain[3].shadow_out = Rat(-3, 1000)

----------------------------------------------------------------------------
(* Claims about convert_pipe: the temperature and the port bounds.         *)

\* the asset of the last conversion is named as a return pipe
NamedReturn == Contains(last.asset.name, <<"_", "r", "e", "t">>)

\* the temperature is the one of the name's regime, and HeatIn and HeatOut have the
\* same bounds, symmetric about zero, of the pipe's geometry and temperatures
RegimeAndSymmetry ==
    LET m == last.modifiers
        area == Div(Mul(pi, Mul(last.asset.innerDiameter, last.asset.innerDiameter)), Num(4))
        dT == Sub(last.asset.supplyT, last.asset.returnT)
    IN  /\ m.temperature = IF NamedReturn THEN last.asset.returnT ELSE last.asset.supplyT
        /\ m.HeatIn = m.HeatOut
        /\ m.HeatIn.Q.max = Mul(area, v_max)
        /\ m.HeatIn.Q.min = Neg(m.HeatIn.Q.max)
        /\ m.HeatIn.Heat.max = Mul(Mul(Mul(Mul(rho, cp), Mul(area, v_max)), dT), Num(2))
        /\ m.HeatIn.Heat.min = Neg(m.HeatIn.Heat.max)
        /\ m.HeatIn.Heat.nominal = Mul(Mul(Mul(rho, cp), Mul(area, v_nominal)), dT)

\* the supply temperature exceeds the return temperature, min < max and the
\* nominal of Heat is strictly positive
SupplyExceedsReturn ==
    /\ Gt(last.asset.supplyT, last.asset.returnT)
    /\ Gt(last.modifiers.HeatIn.Heat.max, last.modifiers.HeatIn.Heat.min)
    /\ Gt(last.modifiers.HeatIn.Heat.nominal, Zero)

\* C13: a pipe that convert_pipe returns has the return temperature when its name
\* contains "_ret" and the supply temperature otherwise, has identical HeatIn and
\* HeatOut bounds symmetric about zero, and is converted only when the supply
\* temperature exceeds the return temperature, with min < max and a strictly
\* positive Heat nominal.
C13_ConvertedOnlyWhenSupplyExceedsReturn ==
    Returned("convert_pipe") => (RegimeAndSymmetry /\ SupplyExceedsReturn)

\* the part of C13 that holds however Python is run, and all of it when the assert
\* statements are not removed
C13_RegimeAndSymmetryAlways ==
    Returned("convert_pipe") => (RegimeAndSymmetry /\ (debug => SupplyExceedsReturn))

\* with the assert statements removed, a pipe whose return temperature exceeds its
\* supply temperature is converted: max < min and the Heat nominal is negative
C13_ConvertedWithInvertedBounds ==
    /\ Returned("convert_pipe")
    /\ ~debug
    /\ Gt(last.asset.returnT, last.asset.supplyT)
    /\ Gt(last.modifiers.HeatIn.Heat.min, last.modifiers.HeatIn.Heat.max)
    /\ Gt(Zero, last.modifiers.HeatIn.Heat.nominal)

\* a return pipe converted with the assert statements in place
C13_ReturnPipeConverted ==
    /\ Returned("convert_pipe")
    /\ debug
    /\ NamedReturn
    /\ last.modifiers.temperature = Num(40)
    /\ last.asset.supplyT = Num(70)

====
